---- MODULE Spec2Model ----
(***************************************************************************)
(* Offline-resilient customer synchronization and local cache engine of    *)
(* the check-in kiosk: the Electron main process (main.ts), the sync       *)
(* service (sync.ts), the SQLite store (database.ts) and the remote        *)
(* directory client (posabit.ts).                                          *)
(*                                                                         *)
(* The main process is a single JavaScript event loop: a handler runs      *)
(* without interruption up to its next `await`, so every action below is   *)
(* one such run-to-suspension segment.  A pending remote call is a         *)
(* position of a coroutine (pass, replays, pendingUpdate); its answer is   *)
(* a separate action that carries the whole continuation up to the next    *)
(* `await`.                                                                *)
(***************************************************************************)
EXTENDS Integers, Sequences, FiniteSets, TLC

(***************************************************************************)
(* Bounds of the model.                                                    *)
(***************************************************************************)
MaxServices == 2      \* SyncService instances created (activations)
NumRecords == 2       \* customer ids of a remote directory
PerPage == 1          \* page size (the code asks for 100 per page)
MaxClock == 2         \* wall-clock instants
MaxRemoteUpdates == 2 \* updates applied to remote records
MaxOutbox == 2        \* rows of offline_queue
MaxReplays == 2       \* syncOfflineQueue coroutines alive at once

PhoneDigits == 10     \* normalizePhone keeps the last 10 digits

Venues == {"tacoma", "andresen"}
Ids == 1..NumRecords
SvcIds == 1..MaxServices
Null == "null"
Undefined == "undefined"
\* text is a sequence of characters; <<>> is both '' and NULL (a column the
\* code writes as `x || null` or `x || ''` never holds the other one)
NoRow == [venue_id |-> Null, ver |-> 0, first_name |-> <<>>, last_name |-> <<>>,
          telephone |-> <<>>]

VARIABLES
  now,            \* wall clock (new Date())
  selectedVenue,  \* store 'selectedVenue'
  lastSyncTime,   \* store 'lastSyncTime' (0 = null)
  nsvc,           \* SyncService instances created; syncService = the nsvc-th
  svcVenue,       \* SyncService.venueId
  isSyncing,      \* SyncService._isSyncing
  customerCount,  \* SyncService._customerCount
  progress,       \* SyncService._progress
  syncInterval,   \* SyncService.syncInterval is armed
  pass,           \* position of the fullSync / incrementalSync coroutine
  customers,      \* table customers, by its PRIMARY KEY id
  remote,         \* the remote directory of each venue
  outbox,         \* table offline_queue, row id = index
  replays,        \* syncOfflineQueue coroutines in flight
  pendingUpdate,  \* update-customer awaiting the remote (<<>> = none)
  pendingCheckIn, \* add-to-queue awaiting the remote (<<>> = none)
  ipc,            \* answer to the last finished IPC request
  syncedVenues,   \* history: venues for which a pass has written lastSyncTime
  remoteQueue,    \* outbox rows whose check-in the remote has accepted from a replay
  storeCall       \* the last direct call of a store function, with its result

vars == <<now, selectedVenue, lastSyncTime, nsvc, svcVenue, isSyncing,
          customerCount, progress, syncInterval, pass, customers, remote,
          outbox, replays, pendingUpdate, pendingCheckIn, ipc, syncedVenues,
          remoteQueue, storeCall>>

(***************************************************************************)
(* Helpers.                                                                *)
(***************************************************************************)
NoPass == [kind |-> "none", page |-> 0, since |-> 0, buf |-> <<>>, caller |-> "none"]

RECURSIVE SortedIds(_)
SortedIds(S) ==
  IF S = {} THEN <<>>
  ELSE LET m == CHOOSE x \in S : \A y \in S : x <= y
       IN <<m>> \o SortedIds(S \ {m})

Min(a, b) == IF a <= b THEN a ELSE b

\* JS: obj.f, undefined when the property is absent
Field(data, f) == IF f \in DOMAIN data THEN data[f] ELSE Undefined

\* JS: obj.f || d for a string and for a number (0 stands for null: a
\* customer id is positive, and `||` maps 0 to d as well)
FieldOrStr(data, f, d) == IF f \in DOMAIN data /\ data[f] # "" THEN data[f] ELSE d
FieldOrNum(data, f, d) == IF f \in DOMAIN data /\ data[f] # 0 THEN data[f] ELSE d

\* JS: obj.f || '' and obj.f || null for a text
FieldOrText(data, f) == IF f \in DOMAIN data THEN data[f] ELSE <<>>

(***************************************************************************)
(* The remote directory (posabit.ts).                                      *)
(***************************************************************************)
\* the listing GET /venue/customers answers: all records (ver = 0: no such
\* record), or those with updated_at > updatedSince (q[updated_at_gt]);
\* since = 0 is no filter
Listing(v, since) ==
  SortedIds({id \in Ids : /\ remote[v][id].ver > 0
                           /\ (since = 0 \/ remote[v][id].upd > since)})

\* PosabitService.fetchCustomers: one page of the listing
fetchCustomers(v, page, since) ==
  LET l == Listing(v, since)
      n == Len(l)
      lo == (page - 1) * PerPage + 1
      hi == Min(page * PerPage, n)
  IN [customers |-> [i \in 1..(IF hi >= lo THEN hi - lo + 1 ELSE 0) |->
                       [id |-> l[lo + i - 1], ver |-> remote[v][l[lo + i - 1]].ver]],
      total_records |-> n,
      total_pages |-> (n + PerPage - 1) \div PerPage]

(***************************************************************************)
(* The local store (database.ts).                                          *)
(***************************************************************************)
\* an upsert that keeps the row it finds (INSERT OR IGNORE)
UpsertOne_Ignore(tbl, c, venueId) ==
  IF tbl[c.id].venue_id # Null THEN tbl
  ELSE [tbl EXCEPT ![c.id] = [venue_id |-> venueId, ver |-> c.ver,
                              first_name |-> FieldOrText(c, "first_name"),
                              last_name |-> FieldOrText(c, "last_name"),
                              telephone |-> FieldOrText(c, "telephone")]]

\* INSERT OR REPLACE of one row: the conflicting row (same PRIMARY KEY id)
\* is replaced
UpsertOne(tbl, c, venueId) ==
  [tbl EXCEPT ![c.id] = [venue_id |-> venueId, ver |-> c.ver,
                         first_name |-> FieldOrText(c, "first_name"),
                         last_name |-> FieldOrText(c, "last_name"),
                         telephone |-> FieldOrText(c, "telephone")]]

RECURSIVE UpsertFrom(_, _, _, _)
UpsertFrom(tbl, cs, venueId, i) ==
  IF i > Len(cs) THEN tbl
  ELSE UpsertFrom(UpsertOne(tbl, cs[i], venueId), cs, venueId, i + 1)

\* upsertCustomers: the rows of one transaction, applied in order
upsertCustomers(tbl, cs, venueId) == UpsertFrom(tbl, cs, venueId, 1)

\* db.transaction(...) losing its rollback: the rows before the failing one stay
insertMany_NoRollback(tbl, cs, venueId, failAt) ==
  IF failAt = 0 THEN UpsertFrom(tbl, cs, venueId, 1)
  ELSE UpsertFrom(tbl, SubSeq(cs, 1, failAt - 1), venueId, 1)

\* insertMany = db.transaction(...): every row of the batch, or none of them
\* when the write of row failAt throws (failAt = 0: no write throws)
insertMany(tbl, cs, venueId, failAt) ==
  IF failAt = 0 THEN UpsertFrom(tbl, cs, venueId, 1) ELSE tbl

Digits == {"0", "1", "2", "3", "4", "5", "6", "7", "8", "9"}
IsDigit(ch) == ch \in Digits

\* phone.replace(/\D/g, '')
StripNonDigits(phone) == SelectSeq(phone, IsDigit)

\* str.slice(-n)
SliceLast(str, n) ==
  IF Len(str) <= n THEN str ELSE SubSeq(str, Len(str) - n + 1, Len(str))

normalizePhone(phone) == SliceLast(StripNonDigits(phone), PhoneDigits)

EndsWith(str, suffix) ==
  /\ Len(suffix) <= Len(str)
  /\ SubSeq(str, Len(str) - Len(suffix) + 1, Len(str)) = suffix

\* telephone LIKE '%' || digits: NULL matches nothing
Like(telephone, digits) == telephone # <<>> /\ EndsWith(telephone, digits)

\* the rows SELECT ... LIMIT 1 may answer; 0 is no row
OneOf(rows) == IF rows = {} THEN {0} ELSE rows

\* getCustomerByPhone without `AND venue_id = ?`
getCustomerByPhone_AnyVenue(tbl, phone, venueId) ==
  OneOf({id \in Ids : /\ tbl[id].venue_id # Null
                       /\ Like(tbl[id].telephone, normalizePhone(phone))})

\* getCustomerByPhone: WHERE telephone LIKE ? AND venue_id = ? LIMIT 1
getCustomerByPhone(tbl, phone, venueId) ==
  OneOf({id \in Ids : /\ tbl[id].venue_id = venueId
                       /\ Like(tbl[id].telephone, normalizePhone(phone))})

\* toUpperCase() and SQL UPPER() on the letters of the model's names
UpperChar(ch) ==
  CASE ch = "a" -> "A" [] ch = "n" -> "N" [] ch = "b" -> "B" [] ch = "o" -> "O"
    [] ch = "l" -> "L" [] ch = "e" -> "E" [] OTHER -> ch
Upper(str) == [i \in 1..Len(str) |-> UpperChar(str[i])]

\* str.trim()
RECURSIVE Trim(_)
Trim(str) ==
  IF str = <<>> THEN str
  ELSE IF Head(str) = " " THEN Trim(Tail(str))
  ELSE IF str[Len(str)] = " " THEN Trim(SubSeq(str, 1, Len(str) - 1))
  ELSE str

\* getCustomerByName: WHERE UPPER(first_name) = ? AND UPPER(last_name) = ?
\* AND venue_id = ? LIMIT 1
getCustomerByName(tbl, firstName, lastName, venueId) ==
  OneOf({id \in Ids : /\ tbl[id].venue_id = venueId
                       /\ Upper(tbl[id].first_name) = Upper(Trim(firstName))
                       /\ Upper(tbl[id].last_name) = Upper(Trim(lastName))})

getCustomerCount(tbl, venueId) ==
  Cardinality({id \in Ids : tbl[id].venue_id = venueId})

\* getUnsyncedEntries: WHERE venue_id = ? AND synced = 0 ORDER BY created_at ASC
RECURSIVE SortedByCreatedAt(_, _)
SortedByCreatedAt(tbl, S) ==
  IF S = {} THEN <<>>
  ELSE LET m == CHOOSE x \in S : \A y \in S :
                  \/ tbl[x].created_at < tbl[y].created_at
                  \/ tbl[x].created_at = tbl[y].created_at /\ x <= y
       IN <<m>> \o SortedByCreatedAt(tbl, S \ {m})

\* getUnsyncedEntries with ORDER BY created_at DESC
getUnsyncedEntries_Desc(tbl, venueId) ==
  LET asc == SortedByCreatedAt(tbl, {i \in 1..Len(tbl) :
                                     tbl[i].venue_id = venueId /\ ~tbl[i].synced})
  IN [j \in 1..Len(asc) |-> asc[Len(asc) + 1 - j]]

getUnsyncedEntries(tbl, venueId) ==
  SortedByCreatedAt(tbl, {i \in 1..Len(tbl) :
                            tbl[i].venue_id = venueId /\ ~tbl[i].synced})

\* markEntrySynced that flips the flag (SET synced = 1 - synced)
markEntrySynced_Toggle(tbl, id) ==
  [i \in 1..Len(tbl) |-> IF i = id THEN [tbl[i] EXCEPT !.synced = ~@] ELSE tbl[i]]

\* markEntrySynced that leaves the synced flag alone
markEntrySynced_NoWrite(tbl, id) == tbl

\* markEntrySynced: UPDATE offline_queue SET synced = 1 WHERE id = ?
markEntrySynced(tbl, id) ==
  [i \in 1..Len(tbl) |-> IF i = id THEN [tbl[i] EXCEPT !.synced = TRUE] ELSE tbl[i]]

(***************************************************************************)
(* The sync engine (SyncService): entry into a pass.                       *)
(***************************************************************************)
NullProgress == [current |-> -1, total |-> -1]

\* fullSync without its single-flight guard
fullSync_NoGuard(p, syncing, caller) ==
  [kind |-> "full", page |-> 1, since |-> 0, buf |-> <<>>, caller |-> caller]

\* fullSync up to its first await: the single-flight guard, then the first
\* page request of fetchAllCustomers
fullSync(p, syncing, caller) ==
  IF syncing THEN p
  ELSE [kind |-> "full", page |-> 1, since |-> 0, buf |-> <<>>, caller |-> caller]

\* incrementalSync without its delegation to fullSync
incrementalSync_NoDelegation(p, syncing, caller) ==
  IF syncing THEN p
  ELSE [kind |-> "inc", page |-> 1, since |-> lastSyncTime, buf |-> <<>>,
        caller |-> caller]

\* incrementalSync up to its first await
incrementalSync(p, syncing, caller) ==
  IF syncing THEN p
  ELSE IF lastSyncTime = 0 THEN fullSync(p, syncing, caller)
  ELSE [kind |-> "inc", page |-> 1, since |-> lastSyncTime, buf |-> <<>>,
        caller |-> caller]

\* syncOfflineQueue up to its first await: the snapshot of the unsynced
\* entries and the submission of the first one
syncOfflineQueue(rs, s, venueId) ==
  LET unsyncedEntries == getUnsyncedEntries(outbox, venueId)
  IN IF Len(unsyncedEntries) = 0 THEN rs
     ELSE Append(rs, [svc |-> s, entries |-> unsyncedEntries, i |-> 1,
                      issuedSynced |-> outbox[unsyncedEntries[1]].synced])

ReplayRoom(venueId) ==
  Len(replays) < MaxReplays \/ Len(getUnsyncedEntries(outbox, venueId)) = 0

\* startBackgroundSync: the bootstrap pass
BootstrapPass ==
  IF lastSyncTime = 0 THEN fullSync(NoPass, FALSE, "background")
  ELSE incrementalSync(NoPass, FALSE, "background")

(***************************************************************************)
(* Activation: set-venue -> initializeServices -> startBackgroundSync.     *)
(* A new PosabitService and a new SyncService replace the module-level     *)
(* references; the previous SyncService object is not stopped.             *)
(***************************************************************************)
initializeServices(v) ==
  LET s == nsvc + 1
  IN /\ nsvc' = s
     /\ svcVenue' = [svcVenue EXCEPT ![s] = v]
     /\ customerCount' = [customerCount EXCEPT ![s] = getCustomerCount(customers, v)]
     /\ pass' = [pass EXCEPT ![s] = BootstrapPass]
     /\ isSyncing' = [isSyncing EXCEPT ![s] = TRUE]
     /\ replays' = syncOfflineQueue(replays, s, v)
     /\ syncInterval' = [syncInterval EXCEPT ![s] = TRUE]

SetVenue(v) ==
  /\ nsvc < MaxServices
  /\ ReplayRoom(v)
  /\ selectedVenue' = v
  /\ initializeServices(v)
  /\ UNCHANGED <<now, lastSyncTime, progress, customers, remote, outbox,
                 pendingUpdate, pendingCheckIn, ipc, syncedVenues,
                 remoteQueue, storeCall>>

\* app.whenReady: initializeServices(savedVenue) for the venue a previous run
\* selected
Startup ==
  /\ nsvc = 0
  /\ selectedVenue # Null
  /\ ReplayRoom(selectedVenue)
  /\ initializeServices(selectedVenue)
  /\ UNCHANGED <<now, selectedVenue, lastSyncTime, progress, customers, remote,
                 outbox, pendingUpdate, pendingCheckIn, ipc, syncedVenues,
                 remoteQueue, storeCall>>

\* the setInterval callback of service s
TimerTick(s) ==
  /\ s <= nsvc
  /\ syncInterval[s]
  /\ ReplayRoom(svcVenue[s])
  /\ pass' = [pass EXCEPT ![s] = incrementalSync(pass[s], isSyncing[s], "timer")]
  /\ isSyncing' = [isSyncing EXCEPT ![s] = TRUE]
  /\ replays' = syncOfflineQueue(replays, s, svcVenue[s])
  /\ UNCHANGED <<now, selectedVenue, lastSyncTime, nsvc, svcVenue, customerCount,
                 progress, syncInterval, customers, remote, outbox,
                 pendingUpdate, pendingCheckIn, ipc, syncedVenues,
                 remoteQueue, storeCall>>

\* ipcMain.handle('force-sync')
ForceSync ==
  /\ IF nsvc = 0
     THEN /\ ipc' = [op |-> "force-sync", res |-> "error"]
          /\ UNCHANGED <<pass, isSyncing,
                 remoteQueue, storeCall>>
     ELSE /\ pass' = [pass EXCEPT ![nsvc] = fullSync(pass[nsvc], isSyncing[nsvc], "force")]
          /\ isSyncing' = [isSyncing EXCEPT ![nsvc] = TRUE]
          /\ ipc' = IF isSyncing[nsvc] THEN [op |-> "force-sync", res |-> "success"]
                    ELSE ipc
  /\ UNCHANGED <<now, selectedVenue, lastSyncTime, nsvc, svcVenue, customerCount,
                 progress, syncInterval, customers, remote, outbox, replays,
                 pendingUpdate, pendingCheckIn, syncedVenues,
                 remoteQueue, storeCall>>

\* the end of a pass that leaves _isSyncing set
EndPass_KeepsSyncing(s, outcome) ==
  /\ pass' = [pass EXCEPT ![s] = NoPass]
  /\ isSyncing' = isSyncing
  /\ ipc' = IF pass[s].caller = "force"
            THEN [op |-> "force-sync", res |-> outcome]
            ELSE ipc

(***************************************************************************)
(* The end of a pass: `finally { this._isSyncing = false }` and the answer *)
(* to the caller.                                                          *)
(***************************************************************************)
EndPass(s, outcome) ==
  /\ pass' = [pass EXCEPT ![s] = NoPass]
  /\ isSyncing' = [isSyncing EXCEPT ![s] = FALSE]
  /\ ipc' = IF pass[s].caller = "force"
            THEN [op |-> "force-sync", res |-> outcome]
            ELSE ipc

(***************************************************************************)
(* Full sync: fetchAllCustomers collects every page, then one upsert.      *)
(***************************************************************************)
FullResponse(s) == fetchCustomers(svcVenue[s], pass[s].page, 0)
FullBuffer(s) == pass[s].buf \o FullResponse(s).customers
\* a progress report that counts the records of the last page only
FullProgress_PerPage(s) == [current |-> Len(FullResponse(s).customers),
                            total |-> FullResponse(s).total_records]

FullProgress(s) == [current |-> Len(FullBuffer(s)),
                    total |-> FullResponse(s).total_records]

\* a page arrives and another one follows
FullFetchPage(s) ==
  /\ pass[s].kind = "full"
  /\ pass[s].page + 1 <= FullResponse(s).total_pages
  /\ pass' = [pass EXCEPT ![s].page = @ + 1, ![s].buf = FullBuffer(s)]
  /\ progress' = [progress EXCEPT ![s] = FullProgress(s)]
  /\ UNCHANGED <<now, selectedVenue, lastSyncTime, nsvc, svcVenue, isSyncing,
                 customerCount, syncInterval, customers, remote, outbox, replays,
                 pendingUpdate, pendingCheckIn, ipc, syncedVenues,
                 remoteQueue, storeCall>>

\* the last page arrives; the collected records are upserted
FullSyncComplete(s) ==
  /\ pass[s].kind = "full"
  /\ pass[s].page + 1 > FullResponse(s).total_pages
  /\ customers' = upsertCustomers(customers, FullBuffer(s), svcVenue[s])
  /\ customerCount' = [customerCount EXCEPT ![s] = getCustomerCount(customers', svcVenue[s])]
  /\ lastSyncTime' = now
  /\ syncedVenues' = syncedVenues \cup {svcVenue[s]}
  /\ progress' = [progress EXCEPT ![s] = NullProgress]
  /\ EndPass(s, "success")
  /\ UNCHANGED <<now, selectedVenue, nsvc, svcVenue, syncInterval, remote, outbox,
                 replays, pendingUpdate, pendingCheckIn,
                 remoteQueue, storeCall>>

\* the last page arrives but the upsert transaction throws
FullSyncUpsertFail(s) ==
  /\ pass[s].kind = "full"
  /\ pass[s].page + 1 > FullResponse(s).total_pages
  /\ progress' = [progress EXCEPT ![s] = FullProgress(s)]
  /\ EndPass(s, "error")
  /\ UNCHANGED <<now, selectedVenue, lastSyncTime, nsvc, svcVenue, customerCount,
                 syncInterval, customers, remote, outbox, replays, pendingUpdate, pendingCheckIn,
                 syncedVenues,
                 remoteQueue, storeCall>>

\* a page request fails: fetchAllCustomers throws, fullSync rethrows
FullFetchFail(s) ==
  /\ pass[s].kind = "full"
  /\ EndPass(s, "error")
  /\ UNCHANGED <<now, selectedVenue, lastSyncTime, nsvc, svcVenue, customerCount,
                 progress, syncInterval, customers, remote, outbox, replays,
                 pendingUpdate, pendingCheckIn, syncedVenues,
                 remoteQueue, storeCall>>

(***************************************************************************)
(* Incremental sync: each page is upserted as it arrives.                  *)
(***************************************************************************)
IncResponse(s) == fetchCustomers(svcVenue[s], pass[s].page, pass[s].since)
IncUpserted(s) ==
  IF Len(IncResponse(s).customers) > 0
  THEN upsertCustomers(customers, IncResponse(s).customers, svcVenue[s])
  ELSE customers
\* hasMore = page < response.total_pages
IncHasMore(s) == pass[s].page < IncResponse(s).total_pages

IncFetchPage(s) ==
  /\ pass[s].kind = "inc"
  /\ IncHasMore(s)
  /\ customers' = IncUpserted(s)
  /\ pass' = [pass EXCEPT ![s].page = @ + 1]
  /\ UNCHANGED <<now, selectedVenue, lastSyncTime, nsvc, svcVenue, isSyncing,
                 customerCount, progress, syncInterval, remote, outbox, replays,
                 pendingUpdate, pendingCheckIn, ipc, syncedVenues,
                 remoteQueue, storeCall>>

IncSyncComplete(s) ==
  /\ pass[s].kind = "inc"
  /\ ~IncHasMore(s)
  /\ customers' = IncUpserted(s)
  /\ customerCount' = [customerCount EXCEPT ![s] = getCustomerCount(customers', svcVenue[s])]
  /\ lastSyncTime' = now
  /\ syncedVenues' = syncedVenues \cup {svcVenue[s]}
  /\ EndPass(s, "success")
  /\ UNCHANGED <<now, selectedVenue, nsvc, svcVenue, progress, syncInterval,
                 remote, outbox, replays, pendingUpdate, pendingCheckIn,
                 remoteQueue, storeCall>>

\* a failed incremental pass that advances the checkpoint all the same
IncSyncFail_WritesCheckpoint(s) ==
  /\ pass[s].kind = "inc"
  /\ EndPass(s, "success")
  /\ lastSyncTime' = now
  /\ UNCHANGED <<now, selectedVenue, nsvc, svcVenue, customerCount,
                 progress, syncInterval, customers, remote, outbox, replays,
                 pendingUpdate, pendingCheckIn, syncedVenues,
                 remoteQueue, storeCall>>

\* a page request or a page upsert throws: caught and logged, not rethrown
IncSyncFail(s) ==
  /\ pass[s].kind = "inc"
  /\ EndPass(s, "success")
  /\ UNCHANGED <<now, selectedVenue, lastSyncTime, nsvc, svcVenue, customerCount,
                 progress, syncInterval, customers, remote, outbox, replays,
                 pendingUpdate, pendingCheckIn, syncedVenues,
                 remoteQueue, storeCall>>

(***************************************************************************)
(* The environment: the wall clock and other writers of the directory.     *)
(***************************************************************************)
Tick ==
  /\ now < MaxClock
  /\ now' = now + 1
  /\ UNCHANGED <<selectedVenue, lastSyncTime, nsvc, svcVenue, isSyncing,
                 customerCount, progress, syncInterval, pass, customers, remote,
                 outbox, replays, pendingUpdate, pendingCheckIn, ipc, syncedVenues,
                 remoteQueue, storeCall>>

RECURSIVE SumVers(_)
SumVers(S) ==
  IF S = {} THEN 0
  ELSE LET x == CHOOSE y \in S : TRUE
       IN (IF remote[x[1]][x[2]].ver > 1 THEN remote[x[1]][x[2]].ver - 1 ELSE 0)
          + SumVers(S \ {x})
RemoteUpdates == SumVers(Venues \X Ids)

Updated(v, id) ==
  [remote EXCEPT ![v][id] = [ver |-> @.ver + 1, upd |-> now]]

\* a record is changed at the remote by somebody else (a POS terminal)
RemoteUpdate(v, id) ==
  /\ RemoteUpdates < MaxRemoteUpdates
  /\ remote[v][id].ver > 0
  /\ remote' = Updated(v, id)
  /\ UNCHANGED <<now, selectedVenue, lastSyncTime, nsvc, svcVenue, isSyncing,
                 customerCount, progress, syncInterval, pass, customers, outbox,
                 replays, pendingUpdate, pendingCheckIn, ipc, syncedVenues,
                 remoteQueue, storeCall>>

(***************************************************************************)
(* update-customer: the remote update, then the upsert of its answer.      *)
(***************************************************************************)
\* the handler up to `await posabitService.updateCustomer(...)`
UpdateCustomerCall(id) ==
  /\ nsvc > 0
  /\ remote[svcVenue[nsvc]][id].ver > 0
  /\ pendingUpdate = <<>>
  /\ RemoteUpdates < MaxRemoteUpdates
  /\ pendingUpdate' = <<[id |-> id, venue |-> selectedVenue, remoteVenue |-> svcVenue[nsvc]]>>
  /\ UNCHANGED <<ipc, now, selectedVenue, lastSyncTime, nsvc, svcVenue, isSyncing,
                 customerCount, progress, syncInterval, pass, customers, remote,
                 outbox, replays, pendingCheckIn, syncedVenues,
                 remoteQueue, storeCall>>

\* the remote applies the update and answers; upsertCustomers([updatedCustomer])
UpdateCustomerOk ==
  /\ pendingUpdate # <<>>
  /\ LET u == pendingUpdate[1]
     IN /\ remote' = Updated(u.remoteVenue, u.id)
        /\ customers' = upsertCustomers(customers,
               <<[id |-> u.id, ver |-> remote'[u.remoteVenue][u.id].ver]>>, u.venue)
  /\ pendingUpdate' = <<>>
  /\ ipc' = [op |-> "update-customer", res |-> "success"]
  /\ UNCHANGED <<now, selectedVenue, lastSyncTime, nsvc, svcVenue, isSyncing,
                 customerCount, progress, syncInterval, pass, outbox, replays,
                 pendingCheckIn, syncedVenues,
                 remoteQueue, storeCall>>

\* the remote refuses: the handler throws
UpdateCustomerFail ==
  /\ pendingUpdate # <<>>
  /\ pendingUpdate' = <<>>
  /\ ipc' = [op |-> "update-customer", res |-> "error"]
  /\ UNCHANGED <<now, selectedVenue, lastSyncTime, nsvc, svcVenue, isSyncing,
                 customerCount, progress, syncInterval, pass, customers, remote,
                 outbox, replays, pendingCheckIn, syncedVenues,
                 remoteQueue, storeCall>>

(***************************************************************************)
(* add-to-queue: live submission with fallback to the outbox.              *)
(***************************************************************************)
\* what the renderer sends (kioskApi.addToQueue, App.handleCheckIn)
UiCheckIn == {[name |-> "Ann", phone |-> p, method |-> "PHONE", customerId |-> c] :
                p \in {"5095550182"}, c \in {1}}
\* a request that already has the shape of an offline_queue row
RowCheckIn == {[name |-> "Ann", phone |-> "5095550182", method |-> "PHONE",
                customer_id |-> 1, venue_id |-> v] : v \in Venues}
CheckInData == UiCheckIn \cup RowCheckIn

\* the values bound by addOfflineQueueEntry
OfflineRow(data) ==
  [name |-> Field(data, "name"),
   phone |-> FieldOrStr(data, "phone", Null),
   method |-> Field(data, "method"),
   customer_id |-> FieldOrNum(data, "customer_id", 0),
   venue_id |-> Field(data, "venue_id"),
   created_at |-> FieldOrNum(data, "created_at", now),
   synced |-> FALSE]

\* the INSERT fails on a NOT NULL column bound to null or undefined
InsertThrows(row) ==
  \E col \in {"name", "method", "venue_id"} :
     row[col] \in {Null, Undefined}

\* addOfflineQueueEntry, then the handler's `return { offline: true }`
StoreOffline(data) ==
  IF InsertThrows(OfflineRow(data))
  THEN /\ ipc' = [op |-> "add-to-queue", res |-> "error"]
       /\ UNCHANGED outbox
  ELSE /\ outbox' = Append(outbox, OfflineRow(data))
       /\ ipc' = [op |-> "add-to-queue", res |-> "offline"]

\* the handler with no remote client configured
AddToQueueNoClient(data) ==
  /\ nsvc = 0
  /\ Len(outbox) < MaxOutbox
  /\ StoreOffline(data)
  /\ UNCHANGED <<now, selectedVenue, lastSyncTime, nsvc, svcVenue, isSyncing,
                 customerCount, progress, syncInterval, pass, customers, remote,
                 replays, pendingUpdate, pendingCheckIn, syncedVenues,
                 remoteQueue, storeCall>>

\* the handler up to `await posabitService.addToQueue(data)`
AddToQueueCall(data) ==
  /\ nsvc > 0
  /\ pendingCheckIn = <<>>
  /\ Len(outbox) < MaxOutbox
  /\ pendingCheckIn' = <<data>>
  /\ UNCHANGED <<ipc, now, selectedVenue, lastSyncTime, nsvc, svcVenue, isSyncing,
                 customerCount, progress, syncInterval, pass, customers, remote,
                 outbox, replays, pendingUpdate, syncedVenues,
                 remoteQueue, storeCall>>

\* the remote accepts the check-in
AddToQueueOk ==
  /\ pendingCheckIn # <<>>
  /\ pendingCheckIn' = <<>>
  /\ ipc' = [op |-> "add-to-queue", res |-> "queued"]
  /\ UNCHANGED <<now, selectedVenue, lastSyncTime, nsvc, svcVenue, isSyncing,
                 customerCount, progress, syncInterval, pass, customers, remote,
                 outbox, replays, pendingUpdate, syncedVenues,
                 remoteQueue, storeCall>>

\* the remote submission throws: the catch block stores the entry offline
AddToQueueFail ==
  /\ pendingCheckIn # <<>>
  /\ pendingCheckIn' = <<>>
  /\ StoreOffline(pendingCheckIn[1])
  /\ UNCHANGED <<now, selectedVenue, lastSyncTime, nsvc, svcVenue, isSyncing,
                 customerCount, progress, syncInterval, pass, customers, remote,
                 replays, pendingUpdate, syncedVenues,
                 remoteQueue, storeCall>>

(***************************************************************************)
(* Replay of the outbox: the loop of syncOfflineQueue.                     *)
(***************************************************************************)
RemoveAt(seq, k) == [i \in 1..(Len(seq) - 1) |-> IF i < k THEN seq[i] ELSE seq[i + 1]]

\* the loop moves to its next entry and submits it, or the coroutine ends
AdvanceReplay(k, tbl) ==
  LET t == replays[k]
  IN IF t.i < Len(t.entries)
     THEN [replays EXCEPT ![k] = [t EXCEPT !.i = @ + 1,
                                    !.issuedSynced = tbl[t.entries[t.i + 1]].synced]]
     ELSE RemoveAt(replays, k)

\* the remote accepts the entry; markEntrySynced
ReplaySubmitOk(k) ==
  /\ k <= Len(replays)
  /\ outbox' = markEntrySynced(outbox, replays[k].entries[replays[k].i])
  /\ replays' = AdvanceReplay(k, outbox')
  /\ remoteQueue' = remoteQueue \cup {replays[k].entries[replays[k].i]}
  /\ UNCHANGED <<now, selectedVenue, lastSyncTime, nsvc, svcVenue, isSyncing,
                 customerCount, progress, syncInterval, pass, customers, remote,
                 pendingUpdate, pendingCheckIn, ipc, syncedVenues, storeCall>>

\* a submission that fails after the entry was marked synced
ReplayMarkFail_MarksFirst(k) ==
  /\ k <= Len(replays)
  /\ outbox' = markEntrySynced(outbox, replays[k].entries[replays[k].i])
  /\ replays' = AdvanceReplay(k, outbox')
  /\ UNCHANGED <<now, selectedVenue, lastSyncTime, nsvc, svcVenue, isSyncing,
                 customerCount, progress, syncInterval, pass, customers, remote,
                 pendingUpdate, pendingCheckIn, ipc, syncedVenues, remoteQueue, storeCall>>

\* the remote accepts the entry but markEntrySynced throws: logged, next entry
ReplayMarkFail(k) ==
  /\ k <= Len(replays)
  /\ remoteQueue' = remoteQueue \cup {replays[k].entries[replays[k].i]}
  /\ replays' = AdvanceReplay(k, outbox)
  /\ UNCHANGED <<now, selectedVenue, lastSyncTime, nsvc, svcVenue, isSyncing,
                 customerCount, progress, syncInterval, pass, customers, remote,
                 outbox, pendingUpdate, pendingCheckIn, ipc, syncedVenues, storeCall>>

\* a failed submission that ends the pass
ReplaySubmitFail_Aborts(k) ==
  /\ k <= Len(replays)
  /\ replays' = RemoveAt(replays, k)
  /\ UNCHANGED <<now, selectedVenue, lastSyncTime, nsvc, svcVenue, isSyncing,
                 customerCount, progress, syncInterval, pass, customers, remote,
                 outbox, pendingUpdate, pendingCheckIn, ipc, syncedVenues,
                 remoteQueue, storeCall>>

\* the remote submission throws: logged, next entry
ReplaySubmitFail(k) ==
  /\ k <= Len(replays)
  /\ replays' = AdvanceReplay(k, outbox)
  /\ UNCHANGED <<now, selectedVenue, lastSyncTime, nsvc, svcVenue, isSyncing,
                 customerCount, progress, syncInterval, pass, customers, remote,
                 outbox, pendingUpdate, pendingCheckIn, ipc, syncedVenues,
                 remoteQueue, storeCall>>

(***************************************************************************)
(* The store functions called directly, as database.ts exports them.       *)
(***************************************************************************)
Phone_Plain == <<"5", "0", "9", "5", "5", "5", "0", "1", "8", "2">>
Phone_Dashes == <<"5", "0", "9", "-", "5", "5", "5", "-", "0", "1", "8", "2">>
Phone_Pretty == <<"+", "1", " ", "(", "5", "0", "9", ")", " ", "5", "5", "5", "-", "0", "1", "8", "2">>
Phone_Other == <<"2", "0", "6", "5", "5", "5", "0", "1", "1", "1">>
Phone_Short == <<"0", "1", "8", "2">>
Phone_NoDigits == <<"n", "/", "a">>
Name_Ann == <<"A", "n", "n">>
Name_ANN_Padded == <<" ", "A", "N", "N", " ">>
Name_Bo == <<"B", "o">>
Name_Lee == <<"L", "e", "e">>
Name_LEE == <<"L", "E", "E">>

\* customers as the remote delivers them: telephone as the remote holds it
StoreRecords ==
  {[id |-> id, ver |-> 1, first_name |-> IF id = 1 THEN Name_Ann ELSE Name_Bo,
    last_name |-> Name_Lee, telephone |-> t] :
      id \in Ids, t \in {<<>>, Phone_Plain, Phone_Dashes}}
StoreBatches ==
  {<<r>> : r \in StoreRecords} \cup {<<r, q>> : r \in StoreRecords, q \in StoreRecords}
LookupPhones == {Phone_Plain, Phone_Pretty, Phone_Other, Phone_Short, Phone_NoDigits}
LookupNames == {<<Name_ANN_Padded, Name_LEE>>, <<Name_Bo, Name_Lee>>}

StoreFrame ==
  UNCHANGED <<now, selectedVenue, lastSyncTime, nsvc, svcVenue, isSyncing,
              customerCount, progress, syncInterval, pass, remote, outbox,
              replays, pendingUpdate, pendingCheckIn, ipc, syncedVenues,
              remoteQueue>>

\* upsertCustomers(cs, venueId); res = -1: the call throws
UpsertBatch(cs, venueId, failAt) ==
  /\ failAt <= Len(cs)
  /\ customers' = insertMany(customers, cs, venueId, failAt)
  /\ storeCall' = [op |-> "upsertCustomers", cs |-> cs, venue |-> venueId,
                   res |-> IF failAt = 0 THEN Len(cs) ELSE -1]
  /\ StoreFrame

LookupByPhone(phone, venueId) ==
  /\ \E r \in getCustomerByPhone(customers, phone, venueId) :
        storeCall' = [op |-> "getCustomerByPhone", phone |-> phone,
                      venue |-> venueId, res |-> r]
  /\ UNCHANGED customers
  /\ StoreFrame

LookupByName(firstName, lastName, venueId) ==
  /\ \E r \in getCustomerByName(customers, firstName, lastName, venueId) :
        storeCall' = [op |-> "getCustomerByName", venue |-> venueId, res |-> r]
  /\ UNCHANGED customers
  /\ StoreFrame

CountByVenue(venueId) ==
  /\ storeCall' = [op |-> "getCustomerCount", venue |-> venueId,
                   res |-> getCustomerCount(customers, venueId)]
  /\ UNCHANGED customers
  /\ StoreFrame

(***************************************************************************)
(* Specification.                                                          *)
(***************************************************************************)
InitLocal ==
  /\ now = 1
  /\ lastSyncTime = 0
  /\ nsvc = 0
  /\ svcVenue = [s \in SvcIds |-> Null]
  /\ isSyncing = [s \in SvcIds |-> FALSE]
  /\ customerCount = [s \in SvcIds |-> 0]
  /\ progress = [s \in SvcIds |-> NullProgress]
  /\ syncInterval = [s \in SvcIds |-> FALSE]
  /\ pass = [s \in SvcIds |-> NoPass]
  /\ customers = [id \in Ids |-> NoRow]
  /\ outbox = <<>>
  /\ replays = <<>>
  /\ pendingUpdate = <<>>
  /\ pendingCheckIn = <<>>
  /\ ipc = [op |-> "none", res |-> "none"]
  /\ syncedVenues = {}
  /\ remoteQueue = {}
  /\ storeCall = [op |-> "none"]

\* a fresh install; the directory of tacoma holds every record, the one of
\* andresen has no customer yet
Init ==
  /\ InitLocal
  /\ selectedVenue = Null
  /\ remote = [v \in Venues |-> [id \in Ids |->
                 [ver |-> IF v = "tacoma" THEN 1 ELSE 0, upd |-> 0]]]

\* a fresh install facing remote directories that hold no record yet
InitOutbox ==
  /\ InitLocal
  /\ selectedVenue = Null
  /\ remote = [v \in Venues |-> [id \in Ids |-> [ver |-> 0, upd |-> 0]]]

\* the scheduler and the engine, with the kiosk's own writes to the directory
Next ==
  \/ \E v \in Venues : SetVenue(v)
  \/ \E s \in SvcIds : TimerTick(s)
  \/ ForceSync
  \/ \E s \in SvcIds : FullFetchPage(s)
  \/ \E s \in SvcIds : FullSyncComplete(s)
  \/ \E s \in SvcIds : FullSyncUpsertFail(s)
  \/ \E s \in SvcIds : FullFetchFail(s)
  \/ \E s \in SvcIds : IncFetchPage(s)
  \/ \E s \in SvcIds : IncSyncComplete(s)
  \/ \E s \in SvcIds : IncSyncFail(s)
  \/ Tick
  \/ \E id \in Ids : UpdateCustomerCall(id)
  \/ UpdateCustomerOk
  \/ UpdateCustomerFail

Spec == Init /\ [][Next]_vars

\* one run of the kiosk on a venue selected earlier, while other writers
\* change the remote directory
InitRemote ==
  /\ InitLocal
  /\ selectedVenue \in Venues
  /\ remote = [v \in Venues |-> [id \in Ids |-> [ver |-> 1, upd |-> 0]]]

NextRemote ==
  \/ Startup
  \/ \E s \in SvcIds : TimerTick(s)
  \/ \E s \in SvcIds : FullFetchPage(s)
  \/ \E s \in SvcIds : FullSyncComplete(s)
  \/ \E s \in SvcIds : FullSyncUpsertFail(s)
  \/ \E s \in SvcIds : FullFetchFail(s)
  \/ \E s \in SvcIds : IncFetchPage(s)
  \/ \E s \in SvcIds : IncSyncComplete(s)
  \/ \E s \in SvcIds : IncSyncFail(s)
  \/ Tick
  \/ \E v \in Venues, id \in Ids : RemoteUpdate(v, id)

SpecRemote == InitRemote /\ [][NextRemote]_vars

\* one run of the kiosk on an empty cache, for every content of the remote
\* directories
InitDirectory ==
  /\ InitLocal
  /\ selectedVenue \in Venues
  /\ remote \in [Venues -> [Ids -> {[ver |-> 0, upd |-> 0], [ver |-> 1, upd |-> 0]}]]

SpecDirectory == InitDirectory /\ [][NextRemote]_vars

\* the check-in path and the outbox replayer, with the scheduler that drives them
\* (a failed replay step is ReplaySubmitFail here: no step reads remoteQueue,
\* and the two failures leave the same local state)
NextOutbox ==
  \/ \E v \in Venues : SetVenue(v)
  \/ \E s \in SvcIds : TimerTick(s)
  \/ \E s \in SvcIds : FullSyncComplete(s)
  \/ \E s \in SvcIds : FullSyncUpsertFail(s)
  \/ \E s \in SvcIds : FullFetchFail(s)
  \/ \E s \in SvcIds : IncSyncComplete(s)
  \/ \E s \in SvcIds : IncSyncFail(s)
  \/ Tick
  \/ \E data \in CheckInData : AddToQueueNoClient(data)
  \/ \E data \in CheckInData : AddToQueueCall(data)
  \/ AddToQueueOk
  \/ AddToQueueFail
  \/ \E k \in 1..MaxReplays : ReplaySubmitOk(k)
  \/ \E k \in 1..MaxReplays : ReplaySubmitFail(k)

SpecOutbox == InitOutbox /\ [][NextOutbox]_vars

\* the remote accepts outbox entry e, submitted by some replay
ReplayDelivers(e) ==
  \E k \in 1..MaxReplays :
     /\ k <= Len(replays)
     /\ replays[k].entries[replays[k].i] = e
     /\ ReplaySubmitOk(k)

\* the check-in path and the replayer at one instant of the clock, with both
\* ways a replay step can fail
NextDelivery ==
  \/ \E v \in Venues : SetVenue(v)
  \/ \E s \in SvcIds : TimerTick(s)
  \/ \E s \in SvcIds : FullSyncComplete(s)
  \/ \E s \in SvcIds : IncSyncComplete(s)
  \/ \E data \in CheckInData : AddToQueueNoClient(data)
  \/ \E data \in CheckInData : AddToQueueCall(data)
  \/ AddToQueueOk
  \/ AddToQueueFail
  \/ \E k \in 1..MaxReplays : ReplaySubmitOk(k)
  \/ \E k \in 1..MaxReplays : ReplaySubmitFail(k)
  \/ \E k \in 1..MaxReplays : ReplayMarkFail(k)

\* every armed setInterval timer keeps firing, and the remote does not
\* refuse the submission of an entry forever
FairDelivery ==
  /\ \A s \in SvcIds : WF_vars(TimerTick(s))
  /\ \A e \in 1..MaxOutbox : SF_vars(ReplayDelivers(e))

SpecDelivery == InitOutbox /\ [][NextDelivery]_vars /\ FairDelivery

\* the store alone, on an empty database
NextStore ==
  \/ \E cs \in StoreBatches, v \in Venues, failAt \in 0..2 : UpsertBatch(cs, v, failAt)
  \/ \E p \in LookupPhones, v \in Venues : LookupByPhone(p, v)
  \/ \E n \in LookupNames, v \in Venues : LookupByName(n[1], n[2], v)
  \/ \E v \in Venues : CountByVenue(v)

SpecStore == InitOutbox /\ [][NextStore]_vars

\* the remote answers the request a pass is waiting on, with a page or an error
PassStep(s) ==
  \/ FullFetchPage(s)
  \/ FullSyncComplete(s)
  \/ FullSyncUpsertFail(s)
  \/ FullFetchFail(s)
  \/ IncFetchPage(s)
  \/ IncSyncComplete(s)
  \/ IncSyncFail(s)

FairPasses == \A s \in SvcIds : WF_vars(PassStep(s))

\* the engine over every content of the directories, each request answered
SpecPasses == InitDirectory /\ [][NextRemote]_vars /\ FairPasses

\* one run of the kiosk on a venue selected earlier; the kiosk's
\* update-customer is the only writer of the remote directory
NextCache ==
  \/ Startup
  \/ \E s \in SvcIds : TimerTick(s)
  \/ \E s \in SvcIds : FullFetchPage(s)
  \/ \E s \in SvcIds : FullSyncComplete(s)
  \/ \E s \in SvcIds : FullSyncUpsertFail(s)
  \/ \E s \in SvcIds : FullFetchFail(s)
  \/ \E s \in SvcIds : IncFetchPage(s)
  \/ \E s \in SvcIds : IncSyncComplete(s)
  \/ \E s \in SvcIds : IncSyncFail(s)
  \/ Tick
  \/ \E id \in Ids : UpdateCustomerCall(id)
  \/ UpdateCustomerOk
  \/ UpdateCustomerFail

\* setInterval keeps firing, and every request of a pass is answered
FairCache ==
  \A s \in SvcIds : WF_vars(TimerTick(s)) /\ WF_vars(PassStep(s))

SpecCache == InitRemote /\ [][NextCache]_vars /\ FairCache

(***************************************************************************)
(* Properties.                                                             *)
(***************************************************************************)
InFlight == {s \in SvcIds : pass[s].kind # "none"}

\* C1: at any moment at most one sync pass, full or incremental, is in
\* flight in the process.
C1_SingleFlight == Cardinality(InFlight) <= 1

\* C2: a replay never submits to the remote an entry whose synced flag is
\* already true at the moment of the call.
C2_NoSubmitAfterSynced ==
  \A k \in 1..Len(replays) : ~replays[k].issuedSynced

\* the answer add-to-queue owes a request it could not deliver: a new
\* unsynced outbox row of the selected venue, and { offline: true }
Deferred ==
  /\ ipc' = [op |-> "add-to-queue", res |-> "offline"]
  /\ Len(outbox') = Len(outbox) + 1
  /\ outbox'[Len(outbox')].venue_id = selectedVenue
  /\ \E i \in 1..Len(getUnsyncedEntries(outbox', selectedVenue)) :
        getUnsyncedEntries(outbox', selectedVenue)[i] = Len(outbox')

\* C3: a check-in with the fields the UI sends, whose remote submission
\* throws or which finds no remote client, is stored as an unsynced outbox
\* entry of the selected venue and answered { offline: true }, not an error.
C3_UiCheckInDeferred ==
  [][\A data \in UiCheckIn :
        (AddToQueueNoClient(data) \/ (pendingCheckIn = <<data>> /\ AddToQueueFail))
           => Deferred]_vars

\* C4: at most one periodic sync timer is armed in the process.
C4_OneTimer == Cardinality({s \in SvcIds : syncInterval[s]}) <= 1

\* C5: lastSyncTimestamp never decreases, and a step changes it only when
\* it is the end of a pass whose every page fetch and upsert succeeded.
C5_CheckpointMonotonic ==
  [][lastSyncTime' # lastSyncTime =>
       /\ lastSyncTime' > lastSyncTime
       /\ \E s \in SvcIds : FullSyncComplete(s) \/ IncSyncComplete(s)]_vars

\* a checkpoint that moved forward twice while an incremental pass runs
C5_Witness ==
  /\ lastSyncTime > 1
  /\ \E s \in SvcIds : pass[s].kind = "inc" /\ pass[s].since < lastSyncTime

\* C6: when an incremental pass ends because a page fetch failed, on the
\* first or a later page, lastSyncTimestamp equals its value at the start
\* of that pass.
C6_FailedPassKeepsCheckpoint ==
  [][\A s \in SvcIds : IncSyncFail(s) => lastSyncTime' = pass[s].since]_vars

\* C7: no silent gap: an update of a remote record that lies before the
\* checkpoint has reached the cache, since no later incremental pass will
\* ask for it.
C7_NoSilentGap ==
  \A s \in 1..nsvc : \A id \in Ids :
     (remote[svcVenue[s]][id].ver > 0 /\ remote[svcVenue[s]][id].upd < lastSyncTime)
        => /\ customers[id].venue_id = svcVenue[s]
           /\ customers[id].ver = remote[svcVenue[s]][id].ver

\* C8: when the fetch of page k > 1 of a full sync fails, the records of
\* pages 1..k-1 are in the cache after the pass.
C8_FullSyncStreams ==
  [][\A s \in SvcIds :
        (FullFetchFail(s) /\ pass[s].page > 1)
           => \A i \in 1..Len(pass[s].buf) :
                 customers'[pass[s].buf[i].id].venue_id = svcVenue[s]]_vars

\* C9: the bootstrap pass of an activation of venue v is a full sync exactly
\* when no checkpoint has been recorded for v.
C9_BootstrapPerVenue ==
  [][\A v \in Venues :
        SetVenue(v) => ((pass'[nsvc'].kind = "full") <=> (v \notin syncedVenues))]_vars

\* the state a rejected sync request must leave alone
SyncStateUnchanged ==
  /\ isSyncing' = isSyncing
  /\ progress' = progress
  /\ customerCount' = customerCount
  /\ lastSyncTime' = lastSyncTime
  /\ pass' = pass
  /\ customers' = customers

\* C10: forceFullSync, or a timer tick, on an engine whose isSyncing is true
\* leaves SyncState alone, issues no fetch and no cache write, and
\* force-sync answers without an error.
C10_RejectedSyncIsNoOp ==
  [][/\ (nsvc > 0 /\ isSyncing[nsvc] /\ ForceSync)
          => (SyncStateUnchanged /\ ipc' = [op |-> "force-sync", res |-> "success"])
     /\ \A s \in SvcIds : (isSyncing[s] /\ TimerTick(s)) => SyncStateUnchanged]_vars

\* force-sync has answered while the bootstrap pass of the only engine runs
C10_Witness ==
  /\ nsvc = 1
  /\ isSyncing[1]
  /\ pass[1].caller = "background"
  /\ ipc = [op |-> "force-sync", res |-> "success"]

\* an armed timer of the venue of outbox row i
Scheduled(i) ==
  \E s \in SvcIds : s <= nsvc /\ syncInterval[s] /\ svcVenue[s] = outbox[i].venue_id

Before(a, b) == a < b /\ outbox[a].created_at <= outbox[b].created_at

\* C12: a replay pass works through the unsynced entries of its venue in
\* ascending createdAt (enqueue) order: its list is in that order, a
\* successful submission marks the entry the pass is waiting on, which was
\* enqueued before every entry the pass has still to submit, and only then
\* is the next entry of the list submitted.
C12_ReplayFifo ==
  [][\A k \in 1..MaxReplays :
        (k <= Len(replays) /\ ReplaySubmitOk(k)) =>
           LET t == replays[k]
           IN /\ \A j \in 1..Len(t.entries) : \A l \in 1..Len(t.entries) :
                    j < l => Before(t.entries[j], t.entries[l])
              /\ outbox'[t.entries[t.i]].synced
              /\ \A l \in (t.i + 1)..Len(t.entries) :
                    outbox'[t.entries[l]].synced = outbox[t.entries[l]].synced
              /\ t.i < Len(t.entries) =>
                    /\ Len(replays') = Len(replays)
                    /\ replays'[k].entries = t.entries
                    /\ replays'[k].i = t.i + 1]_vars

\* a pass over two entries enqueued at different instants has marked the
\* first and waits on the second
C12_Witness ==
  \E k \in 1..Len(replays) :
     /\ Len(replays[k].entries) = 2
     /\ replays[k].i = 2
     /\ outbox[replays[k].entries[1]].synced
     /\ ~outbox[replays[k].entries[2]].synced
     /\ outbox[replays[k].entries[1]].created_at < outbox[replays[k].entries[2]].created_at

\* C13: a failed remote submission, or a failed mark-synced write, does not
\* stop the replay pass: the pass goes on to submit the next entry of its
\* list, and the failed entry is not marked synced.
C13_FailureDoesNotBlock ==
  [][\A k \in 1..MaxReplays :
        (k <= Len(replays) /\ (ReplaySubmitFail(k) \/ ReplayMarkFail(k))) =>
           LET t == replays[k]
           IN /\ outbox' = outbox
              /\ t.i < Len(t.entries) =>
                    /\ Len(replays') = Len(replays)
                    /\ replays'[k].entries = t.entries
                    /\ replays'[k].i = t.i + 1]_vars

\* a pass whose first submission failed waits on its second entry
C13_Witness ==
  \E k \in 1..Len(replays) :
     /\ Len(replays[k].entries) = 2
     /\ replays[k].i = 2
     /\ ~outbox[replays[k].entries[1]].synced

\* outbox row e is in the unsynced list of its venue
Unsynced(tbl, e) ==
  \E j \in 1..Len(getUnsyncedEntries(tbl, tbl[e].venue_id)) :
     getUnsyncedEntries(tbl, tbl[e].venue_id)[j] = e

\* C14: delivery is at-least-once: when the remote accepts an entry but the
\* mark-synced write fails, the entry keeps synced = false and stays in the
\* unsynced list; every replay pass starts from the whole unsynced list of
\* its venue, so the next one submits the entry again; and an entry becomes
\* synced only in a step in which the remote has accepted it.
C14_AtLeastOnce ==
  [][/\ \A k \in 1..MaxReplays :
           (k <= Len(replays) /\ ReplayMarkFail(k)) =>
              LET e == replays[k].entries[replays[k].i]
              IN /\ e \in remoteQueue'
                 /\ outbox'[e].synced = outbox[e].synced
                 /\ ~outbox[e].synced => Unsynced(outbox', e)
     /\ Len(replays') > Len(replays) =>
           LET r == replays'[Len(replays')]
           IN /\ r.entries = getUnsyncedEntries(outbox, svcVenue'[r.svc])
              /\ r.i = 1
     /\ \A e \in 1..Len(outbox) :
           (outbox'[e].synced /\ ~outbox[e].synced) => e \in remoteQueue']_vars

\* an entry the remote has accepted, still unsynced, is being submitted again
C14_Witness ==
  \E k \in 1..Len(replays) :
     LET e == replays[k].entries[replays[k].i]
     IN e \in remoteQueue /\ ~outbox[e].synced /\ replays[k].i = 1

\* T and P of the directory of venue v: its records and the pages they fill
TotalRecords(v) == Cardinality({id \in Ids : remote[v][id].ver > 0})
TotalPages(v) == (TotalRecords(v) + PerPage - 1) \div PerPage

RowOf(c, v) ==
  [venue_id |-> v, ver |-> c.ver, first_name |-> c.first_name,
   last_name |-> c.last_name, telephone |-> c.telephone]

\* the last record of batch cs that has the id of cs[i]
LatestOf(cs, i) ==
  cs[CHOOSE j \in 1..Len(cs) :
        /\ cs[j].id = cs[i].id
        /\ \A l \in (j + 1)..Len(cs) : cs[l].id # cs[i].id]

UpsertDone ==
  storeCall.op = "upsertCustomers" /\ storeCall.res >= 0

\* C16: upsertBatch is idempotent and last-write-wins: after a batch is
\* applied, the one row of each of its ids under the venue holds the values
\* of the last record of the batch with that id, whatever the row held
\* before, and applying the batch once more changes nothing.
C16_UpsertIdempotent ==
  UpsertDone =>
     /\ \A i \in 1..Len(storeCall.cs) :
           customers[storeCall.cs[i].id] = RowOf(LatestOf(storeCall.cs, i), storeCall.venue)
     /\ upsertCustomers(customers, storeCall.cs, storeCall.venue) = customers

\* a batch with two records of one id and different phones has been applied
C16_Witness ==
  /\ UpsertDone
  /\ Len(storeCall.cs) = 2
  /\ storeCall.cs[1].id = storeCall.cs[2].id
  /\ storeCall.cs[1].telephone # storeCall.cs[2].telephone
  /\ customers[storeCall.cs[1].id].telephone = storeCall.cs[2].telephone

\* C17: customer rows are keyed by (remoteId, venueId): upsertBatch(records,
\* venueB) leaves every row stored under another venue as it was, neither
\* replaced nor removed.
C17_CompositeKey ==
  [][(storeCall'.op = "upsertCustomers" /\ storeCall'.res >= 0) =>
        \A id \in Ids :
           customers[id].venue_id \notin {Null, storeCall'.venue}
              => customers'[id] = customers[id]]_vars

LookupDone == storeCall.op \in {"getCustomerByPhone", "getCustomerByName"}

\* C18: lookups are venue-scoped: findByPhone and findByName never answer a
\* row of another venue than the one asked for, so a phone stored only
\* under venueB is not found under venueA.
C18_VenueScoped ==
  (LookupDone /\ storeCall.res # 0) => customers[storeCall.res].venue_id = storeCall.venue

\* a phone stored under the other venue only was looked up and not found
C18_Witness ==
  /\ storeCall.op = "getCustomerByPhone"
  /\ storeCall.res = 0
  /\ \E id \in Ids :
        /\ customers[id].venue_id \notin {Null, storeCall.venue}
        /\ Like(customers[id].telephone, normalizePhone(storeCall.phone))

\* the digits of the stored phone of row id end with the last 10 digits asked for
DigitsMatch(id, phone) ==
  /\ customers[id].telephone # <<>>
  /\ EndsWith(StripNonDigits(customers[id].telephone), normalizePhone(phone))

\* C19: findByPhone(phone, v) finds a row exactly when a row of venue v has
\* a phone whose digits end with the trailing 10 digits of the input,
\* whatever the punctuation of the input or of the stored phone, and
\* answers such a row.
C19_PhoneNormalized ==
  storeCall.op = "getCustomerByPhone" =>
     /\ storeCall.res # 0 <=>
           \E id \in Ids : customers[id].venue_id = storeCall.venue
                            /\ DigitsMatch(id, storeCall.phone)
     /\ storeCall.res # 0 => DigitsMatch(storeCall.res, storeCall.phone)

\* C20: a batch upsert is atomic: when the write of one of its records
\* fails the table is left as it was and the call reports the failure, and
\* every change of the table that a lookup can see is a whole batch.
C20_BatchAtomic ==
  [][storeCall'.op = "upsertCustomers" =>
        /\ \A failAt \in 1..Len(storeCall'.cs) :
              UpsertBatch(storeCall'.cs, storeCall'.venue, failAt)
                 => customers' = customers /\ storeCall'.res = -1
        /\ storeCall'.res = -1 => customers' = customers
        /\ storeCall'.res # -1 =>
              customers' = upsertCustomers(customers, storeCall'.cs, storeCall'.venue)]_vars

\* a batch of two records of different ids has failed on a table that holds
\* neither of them
C20_Witness ==
  /\ storeCall.op = "upsertCustomers"
  /\ storeCall.res = -1
  /\ Len(storeCall.cs) = 2
  /\ storeCall.cs[1].id # storeCall.cs[2].id
  /\ \A i \in 1..2 : customers[storeCall.cs[i].id] # RowOf(storeCall.cs[i], storeCall.venue)
  /\ \E id \in Ids : customers[id].venue_id # Null

\* C21: whenever no pass of an engine is in flight, after a success as after
\* a failure, the engine is idle: isSyncing is false and progress is null.
C21_IdleAfterPass ==
  \A s \in SvcIds :
     (s <= nsvc /\ pass[s].kind = "none")
        => ~isSyncing[s] /\ progress[s] = NullProgress

\* the records of a page are in the cache, as rows of venue v
PageUpserted(page, v) ==
  \A i \in 1..Len(page) :
     /\ customers'[page[i].id].venue_id = v
     /\ customers'[page[i].id].ver = page[i].ver

\* C22: within a pass, full or incremental, the request for page N+1 is
\* issued only once the records of page N are upserted, and the page number
\* goes up by one.
C22_PagesInOrder ==
  [][\A s \in SvcIds :
        /\ FullFetchPage(s) =>
              /\ pass'[s].page = pass[s].page + 1
              /\ PageUpserted(FullResponse(s).customers, svcVenue[s])
        /\ IncFetchPage(s) =>
              /\ pass'[s].page = pass[s].page + 1
              /\ PageUpserted(IncResponse(s).customers, svcVenue[s])]_vars

\* C23: the replay that an activation or a timer tick triggers submits its
\* first entry only after the sync pass of that activation or tick has
\* ended: no step both starts a pass of an engine and submits the first
\* entry of a replay of that engine.
C23_ReplayAfterPass ==
  [][Len(replays') > Len(replays) =>
        LET s == replays'[Len(replays')].svc
        IN ~(pass[s].kind = "none" /\ pass'[s].kind # "none")]_vars

\* C24: a remote error during a pass is contained in the pass: the caller
\* gets no error, the force-sync request included.
C24_ErrorContained ==
  [][\A s \in SvcIds :
        ((FullFetchFail(s) \/ IncSyncFail(s)) /\ pass[s].caller = "force")
           => ipc' = [op |-> "force-sync", res |-> "success"]]_vars

\* C25: every started pass ends and leaves the engine idle, when the remote
\* answers each request with a page or an error; a tick on the idle engine
\* then starts a new pass.
C25_PassTerminates ==
  /\ \A s \in SvcIds : isSyncing[s] ~> (~isSyncing[s] /\ pass[s].kind = "none")
  /\ [][\A s \in SvcIds :
          (TimerTick(s) /\ ~isSyncing[s]) => (isSyncing'[s] /\ pass'[s].kind # "none")]_vars

\* a pass has ended and a tick has started the next one, which asks for the
\* records updated since the first
C25_Witness ==
  /\ nsvc = 1
  /\ isSyncing[1]
  /\ pass[1].kind = "inc"
  /\ pass[1].caller = "timer"

\* C26: a tick of an idle engine runs a full sync as long as no
\* lastSyncTimestamp is stored, so a failed bootstrap is retried by the
\* ticks until a full sync succeeds; once a checkpoint is stored, a tick
\* runs an incremental pass from it, whose pages hold only records updated
\* since that checkpoint.
C26_SelfHealingBootstrap ==
  [][\A s \in SvcIds :
        /\ (TimerTick(s) /\ ~isSyncing[s]) =>
              IF lastSyncTime = 0 THEN pass'[s].kind = "full"
              ELSE pass'[s].kind = "inc" /\ pass'[s].since = lastSyncTime
        /\ (s <= nsvc /\ pass[s].kind = "inc") =>
              \A i \in 1..Len(IncResponse(s).customers) :
                 remote[svcVenue[s]][IncResponse(s).customers[i].id].upd > pass[s].since
        /\ (FullFetchFail(s) \/ FullSyncUpsertFail(s)) => lastSyncTime' = lastSyncTime]_vars

\* after a failed bootstrap a tick retries the full sync
C26_Witness ==
  /\ nsvc = 1
  /\ lastSyncTime = 0
  /\ pass[1].kind = "full"
  /\ pass[1].caller = "timer"

\* C27: the outbox only grows and its entries only move forward: no row is
\* deleted, a row changes only by its synced flag going from false to
\* true, and markOutboxSynced of a synced or unknown id changes nothing.
C27_OutboxMonotonic ==
  [][/\ Len(outbox') >= Len(outbox)
     /\ \A i \in 1..Len(outbox) :
           \/ outbox'[i] = outbox[i]
           \/ ~outbox[i].synced /\ outbox'[i] = [outbox[i] EXCEPT !.synced = TRUE]
     /\ \A id \in 0..(MaxOutbox + 1) :
           (id \notin 1..Len(outbox) \/ outbox[id].synced)
              => markEntrySynced(outbox, id) = outbox]_vars

\* both rows of the outbox are synced and a replay is about to mark one of
\* them again
C27_Witness ==
  /\ Len(outbox) = 2
  /\ \A i \in 1..2 : outbox[i].synced
  /\ \E k \in 1..Len(replays) : replays[k].issuedSynced

\* the cached row of id is older than the record of its venue at the remote
Stale(id) ==
  /\ customers[id].venue_id \in Venues
  /\ customers[id].ver < remote[customers[id].venue_id][id].ver

\* C28: the row update-customer wrote is not lost to older data: when a
\* pass that fetched the record before the update writes its stale copy
\* over the row, a later pass restores the newer value.  update-customer is
\* the only writer of the remote here and it writes the cache in the same
\* step, so a row is stale only after such an overwrite.
C28_UpdateNotOverwritten ==
  \A id \in Ids : Stale(id) ~> ~Stale(id)

\* C29: whenever the engine get-sync-status reads is idle, the customerCount
\* it reports is the number of rows of its venue in the cache.
C29_CountMatchesCache ==
  (nsvc > 0 /\ ~isSyncing[nsvc])
     => customerCount[nsvc] = getCustomerCount(customers, svcVenue[nsvc])

\* C30: findByPhone answers a row only if the trailing 10 digits of its
\* phone are the trailing 10 digits of the input: an input of fewer than 10
\* digits, or of none, never finds a customer whose 10-digit phone differs.
C30_FullNumberOnly ==
  (storeCall.op = "getCustomerByPhone" /\ storeCall.res # 0)
     => normalizePhone(customers[storeCall.res].telephone) = normalizePhone(storeCall.phone)

====
